---- MODULE Spec2Model ----
(***************************************************************************)
(* GitHub Projects V2 MCP server: the tool handlers of                     *)
(* src/github_projects_mcp/server.py over the GitHub Projects client.      *)
(*                                                                         *)
(* Every tool handler is one action: it draws the tool's arguments and the *)
(* outcome of each client call it awaits, and records the invocation in    *)
(* `last` (its arguments, the client calls it made in order, the number of *)
(* API requests those calls issued, and the text it returned, kept as a    *)
(* record of the message template and the values interpolated into it).    *)
(* The remote project is `fields` (the field schema, in API-declared       *)
(* order), `items` (the project's items in traversal order) and `issues`   *)
(* (the repository's issues); `chain` is the caller's view of a filtered   *)
(* scan that reuses the cursors the results show.  The client itself       *)
(* (github_client.py) is modelled from the design's description of it.     *)
(*                                                                         *)
(* `transport` is the request the Transport is executing, with the outcome *)
(* of each attempt made for it so far.                                     *)
(*                                                                         *)
(* Python's None and the empty string are one value, None: the handlers    *)
(* only ever test these arguments for truthiness.                          *)
(***************************************************************************)
EXTENDS Naturals, Sequences, FiniteSets

VARIABLES fields, items, issues, chain, last, transport

vars == <<fields, items, issues, chain, last, transport>>

None == "None"
NoCursor == 0

\* ---- bounds ----
MaxItems == 3
MaxLimit == 2
MaxIssues == 2
MaxProjectItems == 2
MaxRetries == 3

Min(a, b) == IF a <= b THEN a ELSE b

\* str.lower() over the names and values that occur in the model; every
\* other string of the model is already lower case.
Lower(s) ==
  CASE s \in {"Status", "STATUS"} -> "status"
    [] s \in {"Done", "DONE"} -> "done"
    [] s \in {"Todo", "TODO"} -> "todo"
    [] s \in {"High", "HIGH"} -> "high"
    [] s \in {"Low", "LOW"} -> "low"
    [] s = "Priority" -> "priority"
    [] s = "Notes" -> "notes"
    [] s = "Sprint" -> "sprint"
    [] s = "Start Date" -> "start date"
    [] s = "End Date" -> "end date"
    [] OTHER -> s

\* ---- the project's field schema ----
SingleSelect == "ProjectV2SingleSelectField"
Iteration == "ProjectV2IterationField"
PlainField == "ProjectV2Field"

StatusField == [name |-> "Status", type |-> SingleSelect, names |-> <<"Todo", "Done">>]
SprintField == [name |-> "Sprint", type |-> Iteration, names |-> <<"Sprint 1">>]
NotesField == [name |-> "Notes", type |-> PlainField, names |-> <<>>]
StartField == [name |-> "Start Date", type |-> PlainField, names |-> <<>>]
StartLowerField == [name |-> "start date", type |-> PlainField, names |-> <<>>]
EndField == [name |-> "End Date", type |-> PlainField, names |-> <<>>]

Schemas ==
  { <<StatusField, NotesField, StartField, EndField>>,
    <<StatusField, SprintField, StartField>>,
    <<StatusField, StartLowerField, StartField, EndField>> }

\* The project the item scans run against has a field of every kind.
FetchSchema == <<StatusField, SprintField, NotesField, StartField, EndField>>

Messages == {"rate limit exceeded", "not found"}

\* ---- Transport: execute(document, variables) ----

\* What one attempt of a request ends in: a decoded payload (complete, or
\* partial with the field the caller needs), an error the API reports, or a
\* transient failure.
Success == {"ok", "partial_data"}
Fatal == {"auth", "schema", "partial_errors"}
Transient == {"rate_limit", "network"}

NoRequest == [phase |-> "idle", document |-> None, log |-> <<>>,
              outcome |-> None, error |-> None]

\* A Transport that tries again after any failure.
RetryableAlways(o) == TRUE

\* The failures Transport tries again after.
Retryable(o) == o \in Transient

\* execute is called: the first attempt is about to be sent.
Execute(doc) ==
  /\ transport.phase \in {"idle", "done"}
  /\ transport' = [phase |-> "sending", document |-> doc, log |-> <<>>,
                   outcome |-> None, error |-> None]
  /\ UNCHANGED <<fields, items, issues, chain, last>>

\* One attempt ends in `o`: the payload is returned, or the failure is
\* retried after a backoff while fewer than MaxRetries retries were made,
\* or it is raised as a client error.
Attempt(o) ==
  /\ transport.phase = "sending"
  /\ transport' =
       IF o \in Success
       THEN [transport EXCEPT !.phase = "done", !.log = Append(@, o),
                              !.outcome = "result"]
       ELSE IF Retryable(o) /\ Len(transport.log) < MaxRetries
       THEN [transport EXCEPT !.phase = "backoff", !.log = Append(@, o)]
       ELSE [transport EXCEPT !.phase = "done", !.log = Append(@, o),
                              !.outcome = "client_error", !.error = o]
  /\ UNCHANGED <<fields, items, issues, chain, last>>

\* The backoff delay is over: the request is sent again.
Backoff ==
  /\ transport.phase = "backoff"
  /\ transport' = [transport EXCEPT !.phase = "sending"]
  /\ UNCHANGED <<fields, items, issues, chain, last>>

\* ---- the remote project (GitHub side) ----

\* A project item: its node id, the number of the issue it wraps (0 for a
\* draft issue), the content's state (None for a draft issue) and its field
\* values by field name: only the fields set on the item are in the mapping.
MkItem(id, issue, state, status) ==
  [id |-> id, issue |-> issue, state |-> state,
   fv |-> [n \in (IF status = None THEN {} ELSE {"Status"}) |-> status]]

ItemKinds ==
  { [state |-> "OPEN", status |-> "Done"],
    [state |-> "CLOSED", status |-> "Todo"],
    [state |-> None, status |-> None] }

\* The over-fetch multiplier of a filtered scan.
FetchMultiplier == 2

\* One page of the project's items connection: `first` items after the
\* position `after`, with the connection's pageInfo.
FetchPage(its, after, first) ==
  LET hi == Min(after + first, Len(its))
  IN [nodes |-> SubSeq(its, after + 1, hi),
      hasNextPage |-> hi < Len(its),
      endCursor |-> IF hi > after THEN hi ELSE NoCursor]

\* ---- the client's get_project_items ----

StateFiltered(q) == q.state # None
FieldFiltered(q) == q.name # None /\ q.value # None
Filtered(q) == StateFiltered(q) \/ FieldFiltered(q)

\* The filter predicate on one item: state equality, or a case-insensitive
\* exact match of the named field's display value.
ItemMatches(it, q) ==
  IF StateFiltered(q)
  THEN it.state = q.state
  ELSE \E n \in DOMAIN it.fv :
         /\ Lower(n) = Lower(q.name)
         /\ Lower(it.fv[n]) = Lower(q.value)

\* Filtering(batch): the matching items of a batch are appended to what was
\* collected, up to `limit`.
RECURSIVE Collect(_, _, _)
Collect(nodes, q, collected) ==
  IF nodes = <<>> THEN collected
  ELSE Collect(Tail(nodes), q,
               IF ItemMatches(Head(nodes), q) /\ Len(collected) < q.limit
               THEN Append(collected, Head(nodes))
               ELSE collected)

ClientError(msg, n) ==
  [ok |-> FALSE, error |-> "GitHubClientError", msg |-> msg, items |-> <<>>,
   hasNextPage |-> FALSE, endCursor |-> NoCursor, requests |-> n]

ClientInvalid(msg) ==
  [ok |-> FALSE, error |-> "ValueError", msg |-> msg, items |-> <<>>,
   hasNextPage |-> FALSE, endCursor |-> NoCursor, requests |-> 0]

ClientPage(its, hasNext, endCursor, n) ==
  [ok |-> TRUE, error |-> None, msg |-> None, items |-> its,
   hasNextPage |-> hasNext, endCursor |-> endCursor, requests |-> n]

\* A scan that never asks for a second page.
KeepFetchingNever(collected, q, page) == FALSE

\* Whether the page loop goes on after a batch: Fetching(next cursor) unless
\* `limit` matches are collected or the API reports no more pages.
KeepFetching(collected, q, page) ==
  Len(collected) < q.limit /\ page.hasNextPage

\* The page size of a filtered scan: a fixed multiple of `limit`.
FetchSize(q) == FetchMultiplier * q.limit

\* Fetching(cursor) -> Filtering(batch) -> Fetching(next cursor) | Done.
\* `failAt` is the request that fails (0: none does), `n` the requests made.
RECURSIVE FilterScan(_, _, _, _, _, _)
FilterScan(q, after, collected, n, failAt, msg) ==
  IF n + 1 = failAt THEN ClientError(msg, n + 1)
  ELSE LET page == FetchPage(items, after, FetchSize(q))
           got == Collect(page.nodes, q, collected)
       IN IF KeepFetching(got, q, page)
          THEN FilterScan(q, page.endCursor, got, n + 1, failAt, msg)
          ELSE ClientPage(got, page.hasNextPage, page.endCursor, n + 1)

ClientGetProjectItems(q, cursor, failAt, msg) ==
  IF q.state # None /\ q.name # None
  THEN ClientInvalid("both filters")
  ELSE IF ~Filtered(q)
  THEN IF failAt = 1 THEN ClientError(msg, 1)
       ELSE LET page == FetchPage(items, cursor, q.limit)
            IN ClientPage(page.nodes, page.hasNextPage, page.endCursor, 1)
  ELSE FilterScan(q, cursor, <<>>, 0, failAt, msg)

\* ---- server.py: get_project_items ----

\* The first field, in declared order, whose name equals `name`
\* case-insensitively; 0 when there is none.
RECURSIVE FindFieldFrom(_, _, _)
FindFieldFrom(fs, name, i) ==
  IF i > Len(fs) THEN 0
  ELSE IF Lower(fs[i].name) = Lower(name) THEN i
  ELSE FindFieldFrom(fs, name, i + 1)

FindField(fs, name) == FindFieldFrom(fs, name, 1)

ItemsResult(kind, ids, cursor, ftype, names, details) ==
  [kind |-> kind, items |-> ids, cursor |-> cursor, fieldType |-> ftype,
   names |-> names, details |-> details]

\* The handler without its first statement.
BothFiltersUnchecked(state, name) == FALSE

\* The guard of the first statement of the handler.
BothFilters(state, name) == state # None /\ name # None

\* The zero-match diagnostic lookup is made for a custom-field filter only.
WantsDebugInfo(q) == q.name # None /\ q.value # None

\* A footer that shows the end cursor of every page.
ShownCursorAlways(r) == r.endCursor

\* The cursor the pagination footer shows (NoCursor: no footer).
ShownCursor(r) ==
  IF r.hasNextPage /\ r.endCursor # NoCursor THEN r.endCursor ELSE NoCursor

\* The text returned when the client returned no items and no cursor was
\* given; `detailsOk` is whether get_project_fields_details returned.
NoItemsText(q, detailsOk) ==
  LET i == FindField(fields, q.name)
  IN IF WantsDebugInfo(q) /\ detailsOk /\ i # 0 /\ fields[i].type = SingleSelect
     THEN ItemsResult("NoItemsDebugOptions", <<>>, NoCursor, fields[i].type,
                      fields[i].names, None)
     ELSE IF WantsDebugInfo(q) /\ detailsOk /\ i # 0 /\ fields[i].type = Iteration
     THEN ItemsResult("NoItemsDebugIterations", <<>>, NoCursor, fields[i].type,
                      fields[i].names, None)
     ELSE ItemsResult("NoItems", <<>>, NoCursor, None, <<>>, None)

\* The text the handler returns for the client's response `r`.
ItemsText(q, cursor, r, detailsOk) ==
  IF ~r.ok THEN ItemsResult("Error", <<>>, NoCursor, None, <<>>, r.msg)
  ELSE IF r.items = <<>>
  THEN IF cursor # NoCursor
       THEN ItemsResult("NoMoreItems", <<>>, NoCursor, None, <<>>, None)
       ELSE NoItemsText(q, detailsOk)
  ELSE ItemsResult("Items", [i \in DOMAIN r.items |-> r.items[i].id],
                   ShownCursor(r), None, <<>>, None)

\* A handler that makes the lookup on every empty page.
LooksUpFieldsAnyPage(q, cursor, r) ==
  r.ok /\ r.items = <<>> /\ WantsDebugInfo(q)

\* Whether the handler reaches the diagnostic lookup.
LooksUpFields(q, cursor, r) ==
  r.ok /\ r.items = <<>> /\ cursor = NoCursor /\ WantsDebugInfo(q)

\* What an invocation records of the client's response.
Summary(r) ==
  [ok |-> r.ok, error |-> r.error, count |-> Len(r.items), requests |-> r.requests,
   hasNextPage |-> r.hasNextPage, endCursor |-> r.endCursor]

\* No client call was made.
NoResponse ==
  [ok |-> FALSE, error |-> None, count |-> 0, requests |-> 0,
   hasNextPage |-> FALSE, endCursor |-> NoCursor]

NoChain == [active |-> FALSE, state |-> None, name |-> None, value |-> None,
            next |-> NoCursor, seen |-> <<>>, done |-> FALSE]

\* The caller's view of a filtered scan: a filtered call without a cursor
\* starts it, a call with the same filter and the cursor shown by the last
\* call continues it, and it is done when a call shows no cursor.
ChainAfter(q, cursor, res) ==
  IF ~Filtered(q) \/ res.kind \in {"Error", "BothFiltersError"} THEN NoChain
  ELSE IF cursor = NoCursor
  THEN [active |-> TRUE, state |-> q.state, name |-> q.name, value |-> q.value,
        next |-> res.cursor, seen |-> res.items, done |-> res.cursor = NoCursor]
  ELSE IF /\ chain.active /\ ~chain.done /\ cursor = chain.next
          /\ chain.state = q.state /\ chain.name = q.name /\ chain.value = q.value
  THEN [chain EXCEPT !.next = res.cursor, !.seen = chain.seen \o res.items,
                     !.done = res.cursor = NoCursor]
  ELSE NoChain

\* The message of the exception a client call of the invocation raised
\* (None: every call returned): the item query's, else the lookup's.
FailureCause(r, lookup, detailsOk, msg) ==
  IF ~r.ok THEN r.msg
  ELSE IF lookup /\ ~detailsOk THEN msg
  ELSE None

GetProjectItems(limit, state, name, value, cursor, failAt, detailsOk, msg) ==
  LET q == [limit |-> limit, state |-> state, name |-> name, value |-> value]
      args == [limit |-> limit, state |-> state, name |-> name, value |-> value,
               cursor |-> cursor]
  IN /\ IF BothFilters(state, name)
        THEN LET res == ItemsResult("BothFiltersError", <<>>, NoCursor, None, <<>>, None)
             IN /\ last' = [tool |-> "get_project_items", args |-> args,
                            calls |-> <<>>, requests |-> 0, cause |-> None,
                            resp |-> NoResponse, result |-> res]
                /\ chain' = ChainAfter(q, cursor, res)
        ELSE \E r \in {ClientGetProjectItems(q, cursor, failAt, msg)} :
             LET lookup == LooksUpFields(q, cursor, r)
                 res == ItemsText(q, cursor, r, detailsOk)
             IN /\ last' = [tool |-> "get_project_items", args |-> args,
                            calls |-> IF lookup
                                      THEN <<"get_project_items",
                                             "get_project_fields_details">>
                                      ELSE <<"get_project_items">>,
                            requests |-> r.requests + (IF lookup THEN 1 ELSE 0),
                            cause |-> FailureCause(r, lookup, detailsOk, msg),
                            resp |-> Summary(r), result |-> res]
                /\ chain' = ChainAfter(q, cursor, res)
     /\ UNCHANGED <<transport, fields, items, issues>>

\* The filters a caller passes: <<state, filter_field_name, filter_field_value>>.
Queries ==
  { <<None, None, None>>, <<"OPEN", None, None>>,
    <<None, "STATUS", "Done">>, <<None, "Status", "blocked">>,
    <<None, "Notes", "done">>, <<None, "Sprint", "done">>,
    <<None, "statu", "done">>, <<"OPEN", "Status", "open">>,
    <<None, "Status", None>> }

\* The request of one invocation that may fail.
FailPoints == {1}

\* What the API does during one invocation: which request fails, with what
\* message, and whether the field schema lookup succeeds.
FetchOutcomes ==
  {[failAt |-> 0, detailsOk |-> TRUE, msg |-> None],
   [failAt |-> 0, detailsOk |-> FALSE, msg |-> "rate limit exceeded"]}
    \cup {[failAt |-> k, detailsOk |-> TRUE, msg |-> "rate limit exceeded"] :
            k \in FailPoints}

NoCall == [tool |-> "none", args |-> None, calls |-> <<>>, requests |-> 0,
           resp |-> None, result |-> None]

InitFetch ==
  /\ fields = FetchSchema
  /\ \E n \in 0..MaxItems :
       \E ks \in [1..n -> ItemKinds] :
         items = [i \in 1..n |-> MkItem(i, i, ks[i].state, ks[i].status)]
  /\ issues = <<>>
  /\ chain = NoChain
  /\ last = NoCall
  /\ transport = NoRequest

\* A caller passes no cursor or the cursor the previous result showed; an
\* unfiltered call is also made with the cursor of the end of the traversal.
CallGetProjectItems ==
  \E limit \in 1..MaxLimit, f \in Queries, o \in FetchOutcomes :
    \E cursor \in {NoCursor}
                \cup (IF last.tool = "get_project_items"
                      THEN {last.result.cursor} ELSE {})
                \cup (IF f = <<None, None, None>> THEN {Len(items)} ELSE {}) :
      GetProjectItems(limit, f[1], f[2], f[3], cursor, o.failAt, o.detailsOk, o.msg)

NextFetch == CallGetProjectItems

SpecFetch == InitFetch /\ [][NextFetch]_vars

\* ==== get_project_items: properties ====

IsGetItems == last.tool = "get_project_items"

LastQuery ==
  [limit |-> last.args.limit, state |-> last.args.state,
   name |-> last.args.name, value |-> last.args.value]

\* C1: a get_project_items call with both `state` and `filter_field_name`
\* set returns the validation error and makes no client call and no API
\* request, whatever the two values are.
C1_BothFiltersRejectedBeforeAnyCall ==
  (IsGetItems /\ last.args.state # None /\ last.args.name # None)
    => /\ last.result.kind = "BothFiltersError"
       /\ last.calls = <<>>
       /\ last.requests = 0

C1_Witness ==
  /\ IsGetItems
  /\ last.args.state = "OPEN" /\ last.args.name = "Status"
  /\ last.args.value = "open"
  /\ last.result.kind = "BothFiltersError"

\* The results the handler returns for a custom-field filter on a field the
\* project has when no item matches.
EmptyMatchResults ==
  {NoItemsText([limit |-> 1, state |-> None, name |-> fields[i].name,
                value |-> "blocked"], TRUE) : i \in DOMAIN fields}

\* The case of C3: a custom-field filter, no cursor, no matching item, and
\* no field of the project has the name, case-insensitively.
C3_Case ==
  /\ IsGetItems
  /\ last.args.state = None /\ WantsDebugInfo(LastQuery)
  /\ last.args.cursor = NoCursor
  /\ last.resp.ok /\ last.resp.count = 0
  /\ FindField(fields, last.args.name) = 0

\* C3: when a custom-field filter without a cursor matches no item and the
\* project has no field of that name, the result says the field was not
\* found, and is none of the results returned for an empty match on an
\* existing field.
C3_MissingFieldReported ==
  C3_Case => /\ last.result.kind = "FieldNotFound"
             /\ last.result \notin EmptyMatchResults

\* An unfiltered get_project_items call that the client answered.
C12_Case ==
  /\ IsGetItems
  /\ ~Filtered(LastQuery) /\ ~BothFilters(last.args.state, last.args.name)
  /\ last.resp.ok

C13_NoFailureSwallowed ==
  (IsGetItems /\ last.cause # None)
    => /\ last.result.kind \in {"Error", "NoItemsWarning"}
       /\ last.result.details = last.cause

LookedUpFields ==
  \E k \in DOMAIN last.calls : last.calls[k] = "get_project_fields_details"

\* C17: get_project_items makes the field schema lookup exactly when a
\* custom-field filter (name and value) was passed, no cursor was passed,
\* and the item query returned no item; it makes none for a call with a
\* cursor, with a state filter, without a filter, with both filters, with
\* a failed item query, or with a matching item, and never before the item
\* query.
C17_LookupOnlyOnEmptyFirstFilteredPage ==
  IsGetItems =>
    /\ LookedUpFields =
         (/\ last.args.name # None /\ last.args.value # None
          /\ last.args.state = None
          /\ last.args.cursor = NoCursor
          /\ last.resp.ok /\ last.resp.count = 0)
    /\ LookedUpFields =>
         last.calls = <<"get_project_items", "get_project_fields_details">>

\* The lookup is made: a first filtered page without a match.
C17_Witness ==
  /\ IsGetItems /\ LookedUpFields
  /\ last.args.name = "Status" /\ last.args.value = "blocked"
  /\ last.args.cursor = NoCursor
  /\ items # <<>>
  /\ last.result.kind = "NoItemsDebugOptions"

\* The case of C18: the lookup was made, returned, and found the field.
C18_Case ==
  /\ IsGetItems /\ LookedUpFields
  /\ last.cause = None
  /\ FindField(fields, last.args.name) # 0

\* C18: when the zero-match lookup finds the named field (the first field
\* whose name matches case-insensitively), the result says that the field
\* was found and names its type, whatever the type, and lists the option
\* names of a single-select field and the iteration names of an iteration
\* field.
C18_FoundFieldAndTypeReported ==
  C18_Case =>
    LET f == fields[FindField(fields, last.args.name)]
    IN /\ last.result.kind \in {"NoItemsDebugOptions", "NoItemsDebugIterations",
                                "NoItemsDebugField"}
       /\ last.result.fieldType = f.type
       /\ f.type \in {SingleSelect, Iteration} => last.result.names = f.names

\* The ids of the items of the project that satisfy the filter, in
\* traversal order.
RECURSIVE MatchingIdsFrom(_, _)
MatchingIdsFrom(q, i) ==
  IF i > Len(items) THEN <<>>
  ELSE (IF ItemMatches(items[i], q) THEN <<items[i].id>> ELSE <<>>)
         \o MatchingIdsFrom(q, i + 1)

IsPrefix(s, t) == Len(s) <= Len(t) /\ SubSeq(t, 1, Len(s)) = s

ChainQuery ==
  [limit |-> 1, state |-> chain.state, name |-> chain.name, value |-> chain.value]

\* C4: the items returned by a filtered call and by the filtered calls that
\* reuse the returned cursor are the matching items in traversal order,
\* none skipped and none repeated: what the scan has returned so far is a
\* prefix of the matching items, and all of them once no cursor is returned.
C4_FilteredScanLosesNoMatch ==
  chain.active =>
    /\ IsPrefix(chain.seen, MatchingIdsFrom(ChainQuery, 1))
    /\ chain.done => chain.seen = MatchingIdsFrom(ChainQuery, 1)

\* The number of items among positions lo+1..hi that satisfy the filter.
MatchCount(q, lo, hi) ==
  Cardinality({i \in (lo + 1)..Min(hi, Len(items)) : ItemMatches(items[i], q)})

C5_Case ==
  /\ IsGetItems
  /\ Filtered(LastQuery) /\ ~BothFilters(last.args.state, last.args.name)
  /\ last.resp.ok

Url(n) == <<"issues", n>>
NoUrl == <<>>

\* ---- the client's mutations ----

\* create_issue: the new issue of the repository, or a client error.
ClientCreateIssue(iss, ok, msg) ==
  IF ok
  THEN LET issue == [number |-> Len(iss) + 1, url |-> Url(Len(iss) + 1)]
       IN [ok |-> TRUE, msg |-> None, issue |-> issue, issues |-> Append(iss, issue)]
  ELSE [ok |-> FALSE, msg |-> msg, issue |-> [number |-> 0, url |-> NoUrl],
        issues |-> iss]

MaxId(its) ==
  IF its = <<>> THEN 0
  ELSE CHOOSE m \in {its[i].id : i \in DOMAIN its} :
         \A i \in DOMAIN its : its[i].id <= m

\* add_issue_to_project: the new item of the project, or a client error
\* (the API reports an issue that does not exist as not found).
ClientAddIssueToProject(its, iss, number, ok, msg) ==
  IF ~(\E i \in DOMAIN iss : iss[i].number = number)
  THEN [ok |-> FALSE, msg |-> "not found", id |-> 0, items |-> its]
  ELSE IF ~ok THEN [ok |-> FALSE, msg |-> msg, id |-> 0, items |-> its]
  ELSE LET id == MaxId(its) + 1
       IN [ok |-> TRUE, msg |-> None, id |-> id,
           items |-> Append(its, MkItem(id, number, "OPEN", None))]

\* The field a date goes to: none when no date is supplied, else the first
\* field whose name matches case-insensitively (0: no such field).
DateField(date, name) == IF date = None THEN 0 ELSE FindField(fields, name)

\* The field updates set_project_item_dates issues, in order: <<field, date>>.
DateUpdates(start, end, sname, ename) ==
  (IF DateField(start, sname) # 0
   THEN << <<fields[DateField(start, sname)].name, start>> >> ELSE <<>>)
  \o (IF DateField(end, ename) # 0
      THEN << <<fields[DateField(end, ename)].name, end>> >> ELSE <<>>)

SetField(it, name, value) ==
  [it EXCEPT !.fv = [n \in DOMAIN it.fv \cup {name} |->
                       IF n = name THEN value ELSE it.fv[n]]]

\* The items after the first `k` updates of `todo` are applied to item `id`.
RECURSIVE ApplyUpdates(_, _, _, _)
ApplyUpdates(its, id, todo, k) ==
  IF k = 0 THEN its
  ELSE LET prev == ApplyUpdates(its, id, todo, k - 1)
       IN [i \in DOMAIN prev |->
             IF prev[i].id = id THEN SetField(prev[i], todo[k][1], todo[k][2])
             ELSE prev[i]]

UpdateMap(todo) ==
  [n \in {todo[k][1] : k \in DOMAIN todo} |->
     LET k == CHOOSE j \in DOMAIN todo :
                todo[j][1] = n /\ \A l \in DOMAIN todo : todo[l][1] = n => l <= j
     IN todo[k][2]]

NoUpdates == [n \in {} |-> None]

\* set_project_item_dates: rejects a call without a date before any request;
\* request 1 reads the field schema, each following request updates one
\* field.  `failAt` is the request that fails (0: none); updating an item
\* the project does not have fails at the API.
ClientSetDates(its, id, start, end, sname, ename, failAt, msg) ==
  IF start = None /\ end = None
  THEN [ok |-> FALSE, error |-> "ValueError", msg |-> "no date", updates |-> NoUpdates,
        requests |-> 0, items |-> its]
  ELSE IF failAt = 1
  THEN [ok |-> FALSE, error |-> "GitHubClientError", msg |-> msg,
        updates |-> NoUpdates, requests |-> 1, items |-> its]
  ELSE LET todo == DateUpdates(start, end, sname, ename)
           known == \E i \in DOMAIN its : its[i].id = id
           bad == IF todo # <<>> /\ ~known THEN 1
                  ELSE IF failAt - 1 \in DOMAIN todo THEN failAt - 1 ELSE 0
       IN IF bad # 0
          THEN [ok |-> FALSE, error |-> "GitHubClientError",
                msg |-> IF known THEN msg ELSE "not found", updates |-> NoUpdates,
                requests |-> 1 + bad, items |-> ApplyUpdates(its, id, todo, bad - 1)]
          ELSE [ok |-> TRUE, error |-> None, msg |-> None, updates |-> UpdateMap(todo),
                requests |-> 1 + Len(todo),
                items |-> ApplyUpdates(its, id, todo, Len(todo))]

\* ---- server.py: set_project_item_dates ----

MutResult(kind, number, url, itemId, note, updates, details) ==
  [kind |-> kind, issue |-> number, url |-> url, itemId |-> itemId,
   note |-> note, updates |-> updates, details |-> details]

\* The handler without its first statement.
NoDateUnchecked(start, end) == FALSE

\* The guard of the first statement of the handler.
NoDate(start, end) == ~(start # None \/ end # None)

\* A handler that reports an empty update map as a failure.
SetDatesTextStrict(id, r) ==
  IF ~r.ok \/ DOMAIN r.updates = {}
  THEN MutResult("Error", 0, NoUrl, 0, None, NoUpdates, r.msg)
  ELSE MutResult("DatesUpdated", 0, NoUrl, id, None, r.updates, None)

\* The text the handler returns for the client's response `r`.
SetDatesText(id, r) ==
  IF ~r.ok THEN MutResult("Error", 0, NoUrl, 0, None, NoUpdates, r.msg)
  ELSE IF DOMAIN r.updates = {}
  THEN MutResult("NoDatesUpdated", 0, NoUrl, 0, None, NoUpdates, None)
  ELSE MutResult("DatesUpdated", 0, NoUrl, id, None, r.updates, None)

SetProjectItemDates(id, start, end, sname, ename, failAt, msg) ==
  LET args == [item_id |-> id, start_date |-> start, end_date |-> end,
               start_field_name |-> sname, end_field_name |-> ename]
  IN /\ IF NoDate(start, end)
        THEN /\ last' = [tool |-> "set_project_item_dates", args |-> args,
                         calls |-> <<>>, requests |-> 0, env |-> failAt,
                         resp |-> [ok |-> FALSE, error |-> None],
                         result |-> MutResult("DatesRequiredError", 0, NoUrl, 0,
                                              None, NoUpdates, None)]
             /\ items' = items
        ELSE \E r \in {ClientSetDates(items, id, start, end, sname, ename, failAt, msg)} :
                /\ last' = [tool |-> "set_project_item_dates", args |-> args,
                            calls |-> <<"set_project_item_dates">>,
                            requests |-> r.requests, env |-> failAt,
                            resp |-> [ok |-> r.ok, error |-> r.error],
                            result |-> SetDatesText(id, r)]
                /\ items' = r.items
     /\ UNCHANGED <<transport, fields, issues, chain>>

\* The dates and the field names a caller passes.
Dates == {<<None, None>>, <<"2024-01-01", None>>, <<None, "2024-01-31">>,
          <<"2024-01-01", "2024-01-31">>}

FieldNamePairs == {<<"Start Date", "End Date">>, <<"start date", "end dat">>}

\* The requests of set_project_item_dates that may fail: the schema read
\* and the two field updates.
DateFailPoints == {1, 2, 3}

DateOutcomes ==
  {[failAt |-> 0, msg |-> None]}
    \cup {[failAt |-> k, msg |-> "rate limit exceeded"] : k \in DateFailPoints}

\* A project with items that have no field set, one per issue.
InitDates ==
  /\ fields \in Schemas
  /\ \E n \in 1..MaxProjectItems :
       /\ items = [i \in 1..n |-> MkItem(i, i, "OPEN", None)]
       /\ issues = [i \in 1..n |-> [number |-> i, url |-> Url(i)]]
  /\ chain = NoChain
  /\ last = NoCall
  /\ transport = NoRequest

\* The caller names the first item of the project (the items are alike) or
\* an id the project does not have.
CallSetProjectItemDates ==
  \E id \in {1, MaxId(items) + 1}, d \in Dates, f \in FieldNamePairs,
     o \in DateOutcomes :
    SetProjectItemDates(id, d[1], d[2], f[1], f[2], o.failAt, o.msg)

NextDates == CallSetProjectItemDates

SpecDates == InitDates /\ [][NextDates]_vars

\* ==== set_project_item_dates: properties ====

IsSetDates == last.tool = "set_project_item_dates"

\* C9: a set_project_item_dates call with neither start_date nor end_date
\* returns the validation error and makes no client call and no API request.
C9_NoDateRejectedBeforeAnyCall ==
  (IsSetDates /\ last.args.start_date = None /\ last.args.end_date = None)
    => /\ last.result.kind = "DatesRequiredError"
       /\ last.calls = <<>>
       /\ last.requests = 0

C9_Witness ==
  /\ IsSetDates
  /\ last.args.start_date = None /\ last.args.end_date = None
  /\ last.result.kind = "DatesRequiredError"

\* The name of the field of the project a supplied date is written to: the
\* first declared field with that name in any letter casing.
Target(date, name) ==
  IF date = None THEN {}
  ELSE {fields[i].name : i \in
          {j \in DOMAIN fields :
             /\ Lower(fields[j].name) = Lower(name)
             /\ \A k \in 1..(j - 1) : Lower(fields[k].name) # Lower(name)}}

\* A set_project_item_dates step on an item of the project with a date
\* supplied, during which no API request fails.
C10_Step ==
  /\ last'.tool = "set_project_item_dates"
  /\ ~(last'.args.start_date = None /\ last'.args.end_date = None)
  /\ last'.env = 0
  /\ \E i \in DOMAIN items : items[i].id = last'.args.item_id

\* C10: set_project_item_dates writes the supplied dates to exactly the
\* fields their names resolve to; a name that resolves to no field raises no
\* error and is not in the returned update map, and every other field of the
\* item and every other item is left as it was.
C10_DatesSetOnResolvedFieldsOnly ==
  [][C10_Step =>
       LET a == last'.args
           st == Target(a.start_date, a.start_field_name)
           en == Target(a.end_date, a.end_field_name)
       IN /\ last'.result.kind # "Error"
          /\ DOMAIN last'.result.updates = st \cup en
          /\ \A n \in st \ en : last'.result.updates[n] = a.start_date
          /\ \A n \in en : last'.result.updates[n] = a.end_date
          /\ DOMAIN items' = DOMAIN items
          /\ \A i \in DOMAIN items :
               /\ items'[i].id = items[i].id
               /\ items'[i].issue = items[i].issue
               /\ items'[i].state = items[i].state
               /\ IF items[i].id = a.item_id
                  THEN /\ DOMAIN items'[i].fv = DOMAIN items[i].fv \cup st \cup en
                       /\ \A n \in st \ en : items'[i].fv[n] = a.start_date
                       /\ \A n \in en : items'[i].fv[n] = a.end_date
                       /\ \A n \in DOMAIN items[i].fv \ (st \cup en) :
                            items'[i].fv[n] = items[i].fv[n]
                  ELSE items'[i].fv = items[i].fv]_vars

\* A valid start field and a misspelled end field, both dates supplied: only
\* the start field is in the update map and set on the item.
C10_Witness ==
  /\ IsSetDates
  /\ last.args.start_date # None /\ last.args.end_date # None
  /\ FindField(fields, last.args.end_field_name) = 0
  /\ last.result.kind = "DatesUpdated"
  /\ DOMAIN last.result.updates = {"Start Date"}
  /\ \E i \in DOMAIN items :
       /\ items[i].id = last.args.item_id
       /\ DOMAIN items[i].fv = {"Start Date"}

\* ==== composed workflows ====

\* ---- server.py: add_issue_to_project_with_dates, create_issue_and_add_to_project ----

\* A workflow that sets the dates of every added item.
WantsDatesAlways(itemId, start, end) == itemId # 0

\* The dates are set when the added item has an id and a date was supplied.
WantsDates(itemId, start, end) == itemId # 0 /\ (start # None \/ end # None)

\* An inner handler that catches ValueError only.
CatchesDateFailureValueOnly(r) == r.error = "ValueError"

\* The except clause around the date call.
CatchesDateFailure(r) == r.error \in {"GitHubClientError", "ValueError"}

\* A workflow that goes on after a failed create_issue.
CreateFailedIgnored(create) == FALSE

\* create_issue raised: control leaves the try block.
CreateFailed(create) == ~create.ok

\* A workflow that goes on after a failed add_issue_to_project.
AddFailedIgnored(add) == FALSE

\* add_issue_to_project raised: control leaves the try block.
AddFailed(add) == ~add.ok

\* date_msg: the note the date step appends to the success text.
DateNote(r) ==
  IF ~r.ok THEN [note |-> "WarningDatesFailed", updates |-> NoUpdates, details |-> r.msg]
  ELSE IF DOMAIN r.updates = {}
  THEN [note |-> "WarningNoDateFields", updates |-> NoUpdates, details |-> None]
  ELSE [note |-> "DatesSet", updates |-> r.updates, details |-> None]

NoNote == [note |-> None, updates |-> NoUpdates, details |-> None]

ErrorText(msg) == MutResult("Error", 0, NoUrl, 0, None, NoUpdates, msg)

SuccessText(kind, issue, itemId, dn) ==
  MutResult(kind, issue.number, issue.url, itemId, dn.note, dn.updates, dn.details)

NoIssue == [number |-> 0, url |-> NoUrl]

Trace(calls, iss, its, res, createOk, created, addOk, itemId, datesCalled, datesOk, msg) ==
  [calls |-> calls, issues |-> iss, items |-> its, result |-> res,
   resp |-> [createOk |-> createOk, created |-> created, addOk |-> addOk,
             itemId |-> itemId, datesCalled |-> datesCalled, datesOk |-> datesOk,
             datesMsg |-> msg]]

\* The steps the two workflows share once the issue is known: add the issue
\* to the project, then set the dates.  `kind` is the success text, `did`
\* the client calls made before, `shown` the issue the success text names.
AddAndDate(kind, did, shown, iss, created, number, start, end, sname, ename, o) ==
  LET add == ClientAddIssueToProject(items, iss, number, o.addOk, o.msg)
      dates == ClientSetDates(add.items, add.id, start, end, sname, ename,
                              o.failAt, o.msg)
      did2 == Append(did, "add_issue_to_project")
      did3 == Append(did2, "set_project_item_dates")
  IN IF AddFailed(add)
     THEN Trace(did2, iss, add.items, ErrorText(add.msg),
                TRUE, created, FALSE, 0, FALSE, FALSE, None)
     ELSE IF ~WantsDates(add.id, start, end)
     THEN Trace(did2, iss, add.items, SuccessText(kind, shown, add.id, NoNote),
                TRUE, created, add.ok, add.id, FALSE, FALSE, None)
     ELSE IF dates.ok \/ CatchesDateFailure(dates)
     THEN Trace(did3, iss, dates.items,
                SuccessText(kind, shown, add.id, DateNote(dates)),
                TRUE, created, add.ok, add.id, TRUE, dates.ok, dates.msg)
     ELSE Trace(did3, iss, dates.items, ErrorText(dates.msg),
                TRUE, created, add.ok, add.id, TRUE, dates.ok, dates.msg)

WithDatesRun(number, start, end, sname, ename, o) ==
  AddAndDate("Added", <<>>, NoIssue, issues, NoIssue, number, start, end,
             sname, ename, o)

CreateAndAddRun(start, end, sname, ename, o) ==
  LET create == ClientCreateIssue(issues, o.createOk, o.msg)
  IN IF CreateFailed(create)
     THEN Trace(<<"create_issue">>, create.issues, items, ErrorText(create.msg),
                FALSE, NoIssue, FALSE, 0, FALSE, FALSE, None)
     ELSE AddAndDate("CreatedAndAdded", <<"create_issue">>, create.issue,
                     create.issues, create.issue, create.issue.number,
                     start, end, sname, ename, o)

Record(tool, args, o, run) ==
  \E t \in {run} :
  /\ last' = [tool |-> tool, args |-> args, calls |-> t.calls, env |-> o,
              resp |-> t.resp, result |-> t.result]
  /\ issues' = t.issues
  /\ items' = t.items
  /\ UNCHANGED <<transport, fields, chain>>

AddIssueToProjectWithDates(number, start, end, sname, ename, o) ==
  /\ Len(items) < MaxProjectItems
  /\ Record("add_issue_to_project_with_dates",
            [issue_number |-> number, start_date |-> start, end_date |-> end,
             start_field_name |-> sname, end_field_name |-> ename],
            o, WithDatesRun(number, start, end, sname, ename, o))

CreateIssueAndAddToProject(start, end, sname, ename, o) ==
  /\ Len(issues) < MaxIssues
  /\ Len(items) < MaxProjectItems
  /\ Record("create_issue_and_add_to_project",
            [start_date |-> start, end_date |-> end,
             start_field_name |-> sname, end_field_name |-> ename],
            o, CreateAndAddRun(start, end, sname, ename, o))

\* What the API does during one workflow: whether create_issue and
\* add_issue_to_project succeed, which request of the date step fails.
ComposeOutcomes ==
  {[createOk |-> FALSE, addOk |-> TRUE, failAt |-> 0, msg |-> "rate limit exceeded"],
   [createOk |-> TRUE, addOk |-> FALSE, failAt |-> 0, msg |-> "rate limit exceeded"],
   [createOk |-> TRUE, addOk |-> TRUE, failAt |-> 0, msg |-> None]}
    \cup {[createOk |-> TRUE, addOk |-> TRUE, failAt |-> 1, msg |-> "rate limit exceeded"],
          [createOk |-> TRUE, addOk |-> TRUE, failAt |-> 2, msg |-> "not found"]}

\* A repository with one issue and a project without items.
InitCompose ==
  /\ fields = FetchSchema
  /\ items = <<>>
  /\ issues = <<[number |-> 1, url |-> Url(1)]>>
  /\ chain = NoChain
  /\ last = NoCall
  /\ transport = NoRequest

\* The caller names the first issue of the repository (the issues are alike)
\* or a number the repository does not have.
CallAddIssueToProjectWithDates ==
  \E number \in {1, Len(issues) + 1}, d \in Dates, f \in FieldNamePairs,
     o \in {c \in ComposeOutcomes : c.createOk} :
    AddIssueToProjectWithDates(number, d[1], d[2], f[1], f[2], o)

CallCreateIssueAndAddToProject ==
  \E d \in Dates, f \in FieldNamePairs, o \in ComposeOutcomes :
    CreateIssueAndAddToProject(d[1], d[2], f[1], f[2], o)

NextCompose ==
  \/ CallAddIssueToProjectWithDates
  \/ CallCreateIssueAndAddToProject

SpecCompose == InitCompose /\ [][NextCompose]_vars

\* ==== composed workflows: properties ====

IsWithDates == last.tool = "add_issue_to_project_with_dates"
IsCreateAndAdd == last.tool = "create_issue_and_add_to_project"

\* C2: when create_issue succeeded and add_issue_to_project then failed,
\* the result of create_issue_and_add_to_project names the created issue's
\* number and URL and says that linking it to the project failed.
C2_CreatedIssueReportedWhenAddFails ==
  (IsCreateAndAdd /\ last.resp.createOk /\ ~last.resp.addOk)
    => /\ last.result.issue = last.resp.created.number
       /\ last.result.url = last.resp.created.url
       /\ last.result.note = "WarningNotLinked"

\* C6: in both workflows, when add_issue_to_project succeeded and the
\* set_project_item_dates call that followed failed, the result is the
\* success text with the project item id and a warning that carries the
\* error's message.
C6_DateFailureIsAWarning ==
  ((IsWithDates \/ IsCreateAndAdd) /\ last.resp.addOk
     /\ last.resp.datesCalled /\ ~last.resp.datesOk)
    => /\ last.result.kind = (IF IsWithDates THEN "Added" ELSE "CreatedAndAdded")
       /\ last.result.itemId = last.resp.itemId
       /\ last.result.itemId # 0
       /\ last.result.note = "WarningDatesFailed"
       /\ last.result.details = last.resp.datesMsg
       /\ last.result.details \in Messages

C6_Witness ==
  /\ IsCreateAndAdd
  /\ last.resp.addOk /\ last.resp.datesCalled /\ ~last.resp.datesOk
  /\ last.result.kind = "CreatedAndAdded"
  /\ last.result.details = "not found"
  /\ last.env.failAt = 2

\* C7: when create_issue fails in create_issue_and_add_to_project, the only
\* client call of the invocation is create_issue and the result is an error.
C7_CreateFailureAborts ==
  (IsCreateAndAdd /\ ~last.env.createOk)
    => /\ last.calls = <<"create_issue">>
       /\ last.result.kind = "Error"

C7_Witness ==
  /\ IsCreateAndAdd /\ ~last.env.createOk
  /\ last.args.start_date # None
  /\ last.result.kind = "Error"

\* The add_issue_to_project call of the last invocation failed: the API
\* failed it, or the issue does not exist.
C8_AddFails ==
  /\ IsWithDates
  /\ \/ ~last.env.addOk
     \/ ~(\E i \in DOMAIN issues : issues[i].number = last.args.issue_number)

\* C8: when add_issue_to_project fails in add_issue_to_project_with_dates,
\* the result is an error and set_project_item_dates is not called.
C8_AddFailureFailsTheCall ==
  C8_AddFails
    => /\ last.result.kind = "Error"
       /\ last.calls = <<"add_issue_to_project">>

C8_Witness ==
  /\ C8_AddFails
  /\ last.args.start_date # None
  /\ last.result.kind = "Error"
  /\ last.result.details = "not found"

\* The client calls of a workflow in the order of its statements.
C21_Steps ==
  IF IsCreateAndAdd
  THEN <<"create_issue", "add_issue_to_project", "set_project_item_dates">>
  ELSE <<"add_issue_to_project", "set_project_item_dates">>

\* Whether the last invocation made the client call `c`.
C21_Called(c) == \E i \in DOMAIN last.calls : last.calls[i] = c

C21_NoDate == last.args.start_date = None /\ last.args.end_date = None

\* C21: in both workflows the client calls are made in the order of the
\* steps, each at most once: add_issue_to_project only after create_issue
\* returned, set_project_item_dates only after add_issue_to_project returned
\* an item id and only when a date was supplied; without a date a workflow
\* whose issue was added succeeds with no date call and no warning.
C21_StepsInOrderEachGated ==
  (IsWithDates \/ IsCreateAndAdd)
    => /\ Len(last.calls) \in 1..Len(C21_Steps)
       /\ last.calls = SubSeq(C21_Steps, 1, Len(last.calls))
       /\ (IsCreateAndAdd /\ C21_Called("add_issue_to_project"))
            => last.resp.createOk
       /\ C21_Called("set_project_item_dates")
            => /\ last.resp.addOk
               /\ last.resp.itemId # 0
               /\ ~C21_NoDate
       /\ (C21_NoDate /\ last.resp.createOk /\ last.resp.addOk)
            => /\ ~C21_Called("set_project_item_dates")
               /\ last.result.kind \in {"Added", "CreatedAndAdded"}
               /\ last.result.itemId = last.resp.itemId
               /\ last.result.note = None

\* create_issue_and_add_to_project without a date: two calls, the success
\* text, no warning.
C21_Witness ==
  /\ IsCreateAndAdd
  /\ C21_NoDate
  /\ last.calls = <<"create_issue", "add_issue_to_project">>
  /\ last.resp.itemId # 0
  /\ last.result.kind = "CreatedAndAdded"
  /\ last.result.note = None

\* ==== atomic tools ====

\* What the API does during one atomic tool call: whether the request
\* succeeds, and the message of the error when it does not.
ToolOutcomes ==
  {[ok |-> TRUE, msg |-> None]} \cup {[ok |-> FALSE, msg |-> m] : m \in Messages}

\* What an atomic tool records of its one client call.
Invocation(tool, args, call, o, r, res) ==
  [tool |-> tool, args |-> args, calls |-> <<call>>, env |-> o,
   resp |-> [ok |-> r.ok, error |-> r.error], result |-> res]

\* ---- server.py: delete_project_item ----

HasItem(its, id) == \E i \in DOMAIN its : its[i].id = id

\* delete_project_item: the id of the deleted item, or a client error (the
\* API reports an item the project does not have as not found).
ClientDeleteProjectItem(its, id, ok, msg) ==
  IF ~HasItem(its, id)
  THEN [ok |-> FALSE, error |-> "GitHubClientError", msg |-> "not found",
        id |-> 0, items |-> its]
  ELSE IF ~ok
  THEN [ok |-> FALSE, error |-> "GitHubClientError", msg |-> msg,
        id |-> 0, items |-> its]
  ELSE [ok |-> TRUE, error |-> None, msg |-> None, id |-> id,
        items |-> SelectSeq(its, LAMBDA it : it.id # id)]

\* A handler that takes every delete for done.
DeleteFailedIgnored(r) == FALSE

\* delete_project_item raised: control leaves the try block.
DeleteFailed(r) == ~r.ok

DeleteText(r) ==
  IF DeleteFailed(r) THEN ErrorText(r.msg)
  ELSE MutResult("Deleted", 0, NoUrl, r.id, None, NoUpdates, None)

DeleteProjectItem(id, o) ==
  \E r \in {ClientDeleteProjectItem(items, id, o.ok, o.msg)} :
    /\ last' = Invocation("delete_project_item", [item_id |-> id],
                          "delete_project_item", o, r, DeleteText(r))
    /\ items' = r.items
    /\ UNCHANGED <<transport, fields, issues, chain>>

\* ---- server.py: list_projects ----

ListResult(kind, entries, details) ==
  [kind |-> kind, entries |-> entries, details |-> details]

ClientGetProjects(projects, ok, msg) ==
  IF ok THEN [ok |-> TRUE, error |-> None, msg |-> None, projects |-> projects]
  ELSE [ok |-> FALSE, error |-> "GitHubClientError", msg |-> msg, projects |-> <<>>]

\* A handler that formats whatever it has after a failed get_projects.
ListFailedIgnored(r) == FALSE

\* get_projects raised: control leaves the try block.
ListFailed(r) == ~r.ok

ListProjectsText(r) ==
  IF ListFailed(r) THEN ListResult("Error", <<>>, r.msg)
  ELSE IF r.projects = <<>> THEN ListResult("NoProjects", <<>>, None)
  ELSE ListResult("Projects", r.projects, None)

ListProjects(projects, o) ==
  \E r \in {ClientGetProjects(projects, o.ok, o.msg)} :
    /\ last' = Invocation("list_projects", [owner |-> "owner"], "get_projects",
                          o, r, ListProjectsText(r))
    /\ UNCHANGED <<transport, fields, items, issues, chain>>

\* ---- server.py: get_project_fields ----

ClientGetProjectFieldsDetails(fs, ok, msg) ==
  IF ok THEN [ok |-> TRUE, error |-> None, msg |-> None, fields |-> fs]
  ELSE [ok |-> FALSE, error |-> "GitHubClientError", msg |-> msg, fields |-> <<>>]

\* The lines of the field list: name and type of every field, and the
\* option names of a single-select field that has options.
FieldsText(r) ==
  IF ~r.ok THEN ListResult("Error", <<>>, r.msg)
  ELSE IF r.fields = <<>> THEN ListResult("NoFields", <<>>, None)
  ELSE ListResult("Fields",
                  [i \in DOMAIN r.fields |->
                     [name |-> r.fields[i].name, type |-> r.fields[i].type,
                      options |-> IF r.fields[i].type = SingleSelect
                                  THEN r.fields[i].names ELSE <<>>]],
                  None)

GetProjectFields(o) ==
  \E r \in {ClientGetProjectFieldsDetails(fields, o.ok, o.msg)} :
    /\ last' = Invocation("get_project_fields", [project_number |-> 1],
                          "get_project_fields_details", o, r, FieldsText(r))
    /\ UNCHANGED <<transport, fields, items, issues, chain>>

\* ---- server.py: create_issue, add_issue_to_project, create_draft_issue ----

CreateIssueText(r) ==
  IF ~r.ok THEN ErrorText(r.msg)
  ELSE MutResult("IssueCreated", r.issue.number, r.issue.url, 0, None, NoUpdates, None)

CreateIssue(o) ==
  /\ Len(issues) < MaxIssues
  /\ \E r \in {ClientCreateIssue(issues, o.ok, o.msg)} :
       /\ last' = [tool |-> "create_issue", args |-> [title |-> "title"],
                   calls |-> <<"create_issue">>, env |-> o,
                   resp |-> [ok |-> r.ok,
                             error |-> IF r.ok THEN None ELSE "GitHubClientError"],
                   result |-> CreateIssueText(r)]
       /\ issues' = r.issues
  /\ UNCHANGED <<transport, fields, items, chain>>

AddIssueText(number, r) ==
  IF ~r.ok THEN ErrorText(r.msg)
  ELSE MutResult("Added", number, NoUrl, r.id, None, NoUpdates, None)

AddIssueToProject(number, o) ==
  /\ Len(items) < MaxProjectItems
  /\ \E r \in {ClientAddIssueToProject(items, issues, number, o.ok, o.msg)} :
       /\ last' = [tool |-> "add_issue_to_project", args |-> [issue_number |-> number],
                   calls |-> <<"add_issue_to_project">>, env |-> o,
                   resp |-> [ok |-> r.ok,
                             error |-> IF r.ok THEN None ELSE "GitHubClientError"],
                   result |-> AddIssueText(number, r)]
       /\ items' = r.items
  /\ UNCHANGED <<transport, fields, issues, chain>>

\* add_draft_issue_to_project: the new draft item of the project, or a
\* client error.
ClientAddDraftIssueToProject(its, ok, msg) ==
  IF ~ok THEN [ok |-> FALSE, error |-> "GitHubClientError", msg |-> msg,
               id |-> 0, items |-> its]
  ELSE LET id == MaxId(its) + 1
       IN [ok |-> TRUE, error |-> None, msg |-> None, id |-> id,
           items |-> Append(its, MkItem(id, 0, None, None))]

DraftIssueText(r) ==
  IF ~r.ok THEN ErrorText(r.msg)
  ELSE MutResult("DraftCreated", 0, NoUrl, r.id, None, NoUpdates, None)

CreateDraftIssue(o) ==
  /\ Len(items) < MaxProjectItems
  /\ \E r \in {ClientAddDraftIssueToProject(items, o.ok, o.msg)} :
       /\ last' = Invocation("create_draft_issue", [title |-> "title"],
                             "add_draft_issue_to_project", o, r, DraftIssueText(r))
       /\ items' = r.items
  /\ UNCHANGED <<transport, fields, issues, chain>>

\* ---- server.py: update_project_item_field ----

\* A field_value is the sequence of its characters.
Digits == {"0", "1", "2", "3", "4", "5", "6", "7", "8", "9"}

DigitValue(c) ==
  CASE c = "0" -> 0 [] c = "1" -> 1 [] c = "2" -> 2 [] c = "3" -> 3
    [] c = "4" -> 4 [] c = "5" -> 5 [] c = "6" -> 6 [] c = "7" -> 7
    [] c = "8" -> 8 [] c = "9" -> 9

RECURSIVE StripLeft(_)
StripLeft(s) ==
  IF s # <<>> /\ Head(s) = " " THEN StripLeft(Tail(s)) ELSE s

RECURSIVE StripRight(_)
StripRight(s) ==
  IF s # <<>> /\ s[Len(s)] = " " THEN StripRight(SubSeq(s, 1, Len(s) - 1)) ELSE s

IsLetters(s, low, up) ==
  /\ Len(s) = Len(low)
  /\ \A i \in DOMAIN s : s[i] \in {low[i], up[i]}

\* "inf", "infinity" and "nan" in any letter casing.
SpecialOf(s) ==
  IF \/ IsLetters(s, <<"i", "n", "f">>, <<"I", "N", "F">>)
     \/ IsLetters(s, <<"i", "n", "f", "i", "n", "i", "t", "y">>,
                     <<"I", "N", "F", "I", "N", "I", "T", "Y">>)
  THEN "inf"
  ELSE IF IsLetters(s, <<"n", "a", "n">>, <<"N", "A", "N">>) THEN "nan"
  ELSE None

\* The scanner's state after it read `c` in state `st`: the integer part
\* ("int0" before its first digit), the fraction ("dot0" after a point
\* without integer digits, "frac0" after a point that follows digits), the
\* exponent ("exp0" after the e, "expS" after its sign); a state with U
\* follows an underscore, which must stand between two digits.
ScanStep(st, c) ==
  CASE st = "int0" ->
         IF c \in Digits THEN "int" ELSE IF c = "." THEN "dot0" ELSE "bad"
    [] st = "int" ->
         IF c \in Digits THEN "int" ELSE IF c = "_" THEN "intU"
         ELSE IF c = "." THEN "frac0" ELSE IF c \in {"e", "E"} THEN "exp0"
         ELSE "bad"
    [] st = "intU" -> IF c \in Digits THEN "int" ELSE "bad"
    [] st = "dot0" -> IF c \in Digits THEN "frac" ELSE "bad"
    [] st = "frac0" ->
         IF c \in Digits THEN "frac" ELSE IF c \in {"e", "E"} THEN "exp0"
         ELSE "bad"
    [] st = "frac" ->
         IF c \in Digits THEN "frac" ELSE IF c = "_" THEN "fracU"
         ELSE IF c \in {"e", "E"} THEN "exp0" ELSE "bad"
    [] st = "fracU" -> IF c \in Digits THEN "frac" ELSE "bad"
    [] st = "exp0" ->
         IF c \in Digits THEN "exp" ELSE IF c \in {"+", "-"} THEN "expS"
         ELSE "bad"
    [] st = "expS" -> IF c \in Digits THEN "exp" ELSE "bad"
    [] st = "exp" ->
         IF c \in Digits THEN "exp" ELSE IF c = "_" THEN "expU" ELSE "bad"
    [] st = "expU" -> IF c \in Digits THEN "exp" ELSE "bad"
    [] OTHER -> "bad"

\* The digits read so far: the integer and fraction digits as one number,
\* the number of fraction digits, and the exponent.
NoDigits == [mant |-> 0, fracLen |-> 0, expNeg |-> FALSE, exp |-> 0]

Accumulate(acc, st, c) ==
  IF c \notin Digits
  THEN [acc EXCEPT !.expNeg = @ \/ (st = "expS" /\ c = "-")]
  ELSE IF st = "int" THEN [acc EXCEPT !.mant = 10 * @ + DigitValue(c)]
  ELSE IF st = "frac"
  THEN [acc EXCEPT !.mant = 10 * @ + DigitValue(c), !.fracLen = @ + 1]
  ELSE [acc EXCEPT !.exp = 10 * @ + DigitValue(c)]

RECURSIVE Scan(_, _, _)
Scan(s, st, acc) ==
  IF s = <<>> \/ st = "bad" THEN [state |-> st, acc |-> acc]
  ELSE LET next == ScanStep(st, Head(s))
       IN Scan(Tail(s), next, Accumulate(acc, next, Head(s)))

RECURSIVE Pow10(_)
Pow10(n) == IF n = 0 THEN 1 ELSE 10 * Pow10(n - 1)

\* float(field_value): the number a string denotes, or ValueError.
ParseFloat(s) ==
  LET t == StripRight(StripLeft(s))
      signed == t # <<>> /\ Head(t) \in {"+", "-"}
      neg == t # <<>> /\ Head(t) = "-"
      body == IF signed THEN Tail(t) ELSE t
      sc == Scan(body, "int0", NoDigits)
  IN IF SpecialOf(body) # None
     THEN [ok |-> TRUE, special |-> SpecialOf(body), neg |-> neg, acc |-> NoDigits]
     ELSE IF sc.state \in {"int", "frac0", "frac", "exp"}
     THEN [ok |-> TRUE, special |-> None, neg |-> neg, acc |-> sc.acc]
     ELSE [ok |-> FALSE, special |-> None, neg |-> FALSE, acc |-> NoDigits]

\* The parsed number is mant * 10^Up / 10^Down: the exponent less the number
\* of fraction digits, as a shift to the left (Up) or to the right (Down).
Up(a) == IF ~a.expNeg /\ a.exp >= a.fracLen THEN a.exp - a.fracLen ELSE 0

Down(a) ==
  IF a.expNeg THEN a.fracLen + a.exp
  ELSE IF a.fracLen > a.exp THEN a.fracLen - a.exp
  ELSE 0

\* float.is_integer(): false for inf and nan.  The field values of the
\* model are short enough for the double to be integral exactly when the
\* decimal number is.
IsInteger(p) == p.special = None /\ p.acc.mant % Pow10(Down(p.acc)) = 0

\* A value passed to the client: an int, a float (digits / 10^places, or
\* inf or nan) or a str.
Value(type, special, neg, digits, places, text) ==
  [type |-> type, special |-> special, neg |-> neg, digits |-> digits,
   places |-> places, text |-> text]

Text(s) == Value("str", None, FALSE, 0, 0, s)

\* int(parsed_value); int(-0.0) is 0.
IntOf(p) ==
  LET n == (p.acc.mant * Pow10(Up(p.acc))) \div Pow10(Down(p.acc))
  IN Value("int", None, p.neg /\ n # 0, n, 0, <<>>)

\* The digits and decimal places of a number without trailing zeros.
RECURSIVE Reduced(_, _)
Reduced(m, d) ==
  IF d > 0 /\ m % 10 = 0 THEN Reduced(m \div 10, d - 1) ELSE <<m, d>>

FloatOf(p) ==
  IF p.special # None
  THEN Value("float", p.special, p.neg /\ p.special = "inf", 0, 0, <<>>)
  ELSE LET r == Reduced(p.acc.mant * Pow10(Up(p.acc)), Down(p.acc))
       IN Value("float", None, p.neg, r[1], r[2], <<>>)

\* A handler that passes every number as the float it parsed.
CoerceToFloat(s) ==
  LET p == ParseFloat(s)
  IN IF ~p.ok THEN Text(s) ELSE FloatOf(p)

\* parsed_value: the float of the string, the int of that float when it is
\* integral, the string itself when float() raises ValueError.
Coerce(s) ==
  LET p == ParseFloat(s)
  IN IF ~p.ok THEN Text(s)
     ELSE IF IsInteger(p) THEN IntOf(p)
     ELSE FloatOf(p)

\* The node identifier of a field of the project.
FieldId(name) == <<"field", name>>

FieldNameOf(fs, id) ==
  fs[CHOOSE i \in DOMAIN fs : FieldId(fs[i].name) = id].name

\* update_project_item_field: one mutation that sets the field of the item
\* to the value it is given; an item or field the project does not have is
\* not found.
ClientUpdateProjectItemField(its, fs, id, fid, value, ok, msg) ==
  IF ~HasItem(its, id) \/ ~\E i \in DOMAIN fs : FieldId(fs[i].name) = fid
  THEN [ok |-> FALSE, error |-> "GitHubClientError", msg |-> "not found",
        items |-> its]
  ELSE IF ~ok
  THEN [ok |-> FALSE, error |-> "GitHubClientError", msg |-> msg, items |-> its]
  ELSE [ok |-> TRUE, error |-> None, msg |-> None,
        items |-> [i \in DOMAIN its |->
                     IF its[i].id = id
                     THEN SetField(its[i], FieldNameOf(fs, fid), value)
                     ELSE its[i]]]

FieldResult(kind, itemId, fieldId, value, details) ==
  [kind |-> kind, itemId |-> itemId, fieldId |-> fieldId, value |-> value,
   details |-> details]

UpdateFieldText(id, fid, field_value, r) ==
  IF ~r.ok THEN FieldResult("Error", 0, None, <<>>, r.msg)
  ELSE FieldResult("FieldUpdated", id, fid, field_value, None)

UpdateProjectItemField(id, fid, field_value, o) ==
  \E parsed \in {Coerce(field_value)} :
    \E r \in {ClientUpdateProjectItemField(items, fields, id, fid, parsed,
                                           o.ok, o.msg)} :
      /\ last' = [tool |-> "update_project_item_field",
                  args |-> [item_id |-> id, field_id |-> fid,
                            field_value |-> field_value],
                  calls |-> <<"update_project_item_field">>, env |-> o,
                  sent |-> [item_id |-> id, field_id |-> fid, value |-> parsed],
                  resp |-> [ok |-> r.ok, error |-> r.error],
                  result |-> UpdateFieldText(id, fid, field_value, r)]
      /\ items' = r.items
      /\ UNCHANGED <<transport, fields, issues, chain>>

\* The field values a caller passes: numbers in the notations float()
\* reads, and strings that are no number.
FieldValues ==
  { <<"5">>, <<"5", ".", "0">>, <<"5", ".">>, <<".", "5">>, <<"2", ".", "5">>,
    <<"2", ".", "5", "0">>, <<"-", "3">>, <<"+", "3">>, <<"-", "0">>,
    <<"1", "e", "2">>, <<"2", "5", "e", "-", "1">>, <<"5", ".", "E", "1">>,
    <<" ", "7", " ">>, <<"1", "_", "0">>, <<"n", "a", "n">>,
    <<"-", "I", "n", "f">>,
    <<>>, <<".">>, <<"-">>, <<"e", "5">>, <<"5", "e">>, <<"1", "_">>,
    <<"1", "_", "_", "0">>, <<"1", ".", "5", ".", "2">>, <<"5", " ", "5">>,
    <<"0", "x", "1", "0">>, <<"d", "o", "n", "e">>,
    <<"2", "0", "2", "4", "-", "0", "1", "-", "0", "1">> }

\* A project with items that have no field set, one per issue.
InitUpdate ==
  /\ fields = FetchSchema
  /\ \E n \in 1..MaxProjectItems :
       /\ items = [i \in 1..n |-> MkItem(i, i, "OPEN", None)]
       /\ issues = [i \in 1..n |-> [number |-> i, url |-> Url(i)]]
  /\ chain = NoChain
  /\ last = NoCall
  /\ transport = NoRequest

\* The calls on the first item of the project (the items are alike): the
\* API sets the field or fails; the project does not have the field; the
\* project does not have the item.
UpdateCalls ==
  {[id |-> 1, fid |-> FieldId("Notes"), o |-> [ok |-> TRUE, msg |-> None]],
   [id |-> 1, fid |-> FieldId("Notes"),
    o |-> [ok |-> FALSE, msg |-> "rate limit exceeded"]],
   [id |-> 1, fid |-> FieldId("Estimate"), o |-> [ok |-> TRUE, msg |-> None]],
   [id |-> MaxId(items) + 1, fid |-> FieldId("Notes"),
    o |-> [ok |-> TRUE, msg |-> None]]}

NextUpdate ==
  \E c \in UpdateCalls, v \in FieldValues :
    UpdateProjectItemField(c.id, c.fid, v, c.o)

SpecUpdate == InitUpdate /\ [][NextUpdate]_vars

\* ==== update_project_item_field: properties ====

IsUpdateField == last.tool = "update_project_item_field"

\* The numbers among the field values, as Python reads them.
C19_Numbers ==
  { << <<"5">>, Value("int", None, FALSE, 5, 0, <<>>) >>,
    << <<"5", ".", "0">>, Value("int", None, FALSE, 5, 0, <<>>) >>,
    << <<"5", ".">>, Value("int", None, FALSE, 5, 0, <<>>) >>,
    << <<".", "5">>, Value("float", None, FALSE, 5, 1, <<>>) >>,
    << <<"2", ".", "5">>, Value("float", None, FALSE, 25, 1, <<>>) >>,
    << <<"2", ".", "5", "0">>, Value("float", None, FALSE, 25, 1, <<>>) >>,
    << <<"-", "3">>, Value("int", None, TRUE, 3, 0, <<>>) >>,
    << <<"+", "3">>, Value("int", None, FALSE, 3, 0, <<>>) >>,
    << <<"-", "0">>, Value("int", None, FALSE, 0, 0, <<>>) >>,
    << <<"1", "e", "2">>, Value("int", None, FALSE, 100, 0, <<>>) >>,
    << <<"2", "5", "e", "-", "1">>, Value("float", None, FALSE, 25, 1, <<>>) >>,
    << <<"5", ".", "E", "1">>, Value("int", None, FALSE, 50, 0, <<>>) >>,
    << <<" ", "7", " ">>, Value("int", None, FALSE, 7, 0, <<>>) >>,
    << <<"1", "_", "0">>, Value("int", None, FALSE, 10, 0, <<>>) >>,
    << <<"n", "a", "n">>, Value("float", "nan", FALSE, 0, 0, <<>>) >>,
    << <<"-", "I", "n", "f">>, Value("float", "inf", TRUE, 0, 0, <<>>) >> }

\* C19: update_project_item_field calls the client once, for the item and
\* the field id it was given, with the value coerced by one rule: a
\* field_value that float() reads is passed as that number, as an int when
\* the number is integral and as a float otherwise, and every other
\* field_value is passed as the string it is; the confirmation names the
\* field id and the field_value as the caller wrote it.
C19_ValueCoercedByOneRule ==
  IsUpdateField =>
    LET a == last.args
        n == {e \in C19_Numbers : e[1] = a.field_value}
    IN /\ last.calls = <<"update_project_item_field">>
       /\ last.sent.item_id = a.item_id
       /\ last.sent.field_id = a.field_id
       /\ \A e \in n : last.sent.value = e[2]
       /\ n = {} => last.sent.value = Text(a.field_value)
       /\ last.sent.value.type = "int" =>
            /\ last.sent.value.special = None
            /\ last.sent.value.places = 0
       /\ (last.sent.value.type = "float" /\ last.sent.value.special = None)
            => last.sent.value.places > 0 /\ last.sent.value.digits % 10 # 0
       /\ last.resp.ok =>
            /\ last.result.kind = "FieldUpdated"
            /\ last.result.itemId = a.item_id
            /\ last.result.fieldId = a.field_id
            /\ last.result.value = a.field_value
            /\ \E i \in DOMAIN items :
                 /\ items[i].id = a.item_id
                 /\ items[i].fv[FieldNameOf(fields, a.field_id)] = last.sent.value

\* "5.0" was passed as the int 5 and echoed as "5.0".
C19_Witness ==
  /\ IsUpdateField
  /\ last.args.field_value = <<"5", ".", "0">>
  /\ last.sent.value = Value("int", None, FALSE, 5, 0, <<>>)
  /\ last.result.kind = "FieldUpdated"
  /\ last.result.value = <<"5", ".", "0">>

\* ---- the atomic tools over one project ----

\* A repository with issues, the first of them on the project's board.
InitTools ==
  /\ fields = FetchSchema
  /\ \E n \in 1..MaxIssues :
       /\ issues = [i \in 1..n |-> [number |-> i, url |-> Url(i)]]
       /\ \E m \in 0..Min(n, MaxProjectItems) :
            items = [i \in 1..m |-> MkItem(i, i, "OPEN", None)]
  /\ chain = NoChain
  /\ last = NoCall
  /\ transport = NoRequest

\* One call of one of the tools.  list_projects, get_project_fields,
\* create_issue and create_draft_issue take the project as it is;
\* get_project_items reads the first page, unfiltered, or is called with both
\* filters; add_issue_to_project and add_issue_to_project_with_dates name an
\* issue of the repository or a number it does not have;
\* set_project_item_dates and update_project_item_field change the first
\* item; delete_project_item names the first item the project had or an id
\* it never had.  The dated calls pass a start date under the default field
\* names.
NextTools ==
  \/ \E ps \in {<<>>, << <<"PVT_1", 1>> >>, << <<"PVT_1", 1>>, <<"PVT_2", 2>> >>},
        o \in ToolOutcomes :
       ListProjects(ps, o)
  \/ \E o \in ToolOutcomes : GetProjectFields(o)
  \/ \E f \in {<<None, None, None>>, <<"OPEN", "Status", "open">>},
        o \in FetchOutcomes :
       GetProjectItems(MaxLimit, f[1], f[2], f[3], NoCursor,
                       o.failAt, o.detailsOk, o.msg)
  \/ \E o \in ToolOutcomes : CreateIssue(o)
  \/ \E number \in {1, Len(issues) + 1}, o \in ToolOutcomes :
       AddIssueToProject(number, o)
  \/ \E o \in DateOutcomes :
       SetProjectItemDates(1, "2024-01-01", None, "Start Date", "End Date",
                           o.failAt, o.msg)
  \/ \E number \in {1, Len(issues) + 1},
        o \in {c \in ComposeOutcomes : c.createOk} :
       AddIssueToProjectWithDates(number, "2024-01-01", None, "Start Date",
                                  "End Date", o)
  \/ \E o \in ComposeOutcomes :
       CreateIssueAndAddToProject("2024-01-01", None, "Start Date", "End Date", o)
  \/ \E o \in ToolOutcomes :
       UpdateProjectItemField(1, FieldId("End Date"), <<"5", ".", "0">>, o)
  \/ \E o \in ToolOutcomes : CreateDraftIssue(o)
  \/ \E id \in {1, MaxId(items) + 1}, o \in ToolOutcomes :
       DeleteProjectItem(id, o)

SpecTools == InitTools /\ [][NextTools]_vars

\* ==== atomic tools: properties ====

IsDelete == last.tool = "delete_project_item"

\* A delete_project_item step on an id that no item of the project has.
C11_Step ==
  /\ last'.tool = "delete_project_item"
  /\ ~HasItem(items, last'.args.item_id)

\* C11: delete_project_item on an id that is not in the project (never
\* there, or deleted before) returns the error text with the API's message,
\* not the success confirmation, and the project's items stay as they were.
C11_DeleteOfMissingItemIsAnError ==
  [][C11_Step => /\ last'.result.kind = "Error"
                 /\ last'.result.details = "not found"
                 /\ last'.result.itemId = 0
                 /\ items' = items]_vars

\* The second delete of item 1: the API is up, the project still has items
\* (with later ids), item 1 is gone, and the result is the error.
C11_Witness ==
  /\ IsDelete
  /\ last.args.item_id = 1
  /\ last.env.ok
  /\ items # <<>> /\ ~HasItem(items, 1)
  /\ last.result.kind = "Error"
  /\ last.result.details = "not found"

\* The first client call of the last invocation raised GitHubClientError.
PrimaryRaised ==
  CASE last.tool = "none" -> FALSE
    [] IsWithDates -> ~last.resp.addOk
    [] IsCreateAndAdd -> ~last.resp.createOk
    [] OTHER -> last.resp.error = "GitHubClientError"

\* C20: every tool invocation ends with a text result, and when the tool's
\* first client call raised GitHubClientError the text is the error text
\* with the exception's message, not the tool's success message.
C20_ClientErrorBecomesErrorText ==
  last.tool # "none"
    => /\ "kind" \in DOMAIN last.result
       /\ PrimaryRaised => /\ last.result.kind = "Error"
                           /\ last.result.details \in Messages

\* add_issue_to_project_with_dates on an issue of the repository whose
\* add_issue_to_project call failed at the API ends with the error text.
C20_Witness ==
  /\ IsWithDates
  /\ last.args.issue_number = 1
  /\ ~last.env.addOk
  /\ PrimaryRaised
  /\ last.result.kind = "Error"
  /\ last.result.details = "rate limit exceeded"

\* ==== Field Type Model: single-select values ====

PriorityField ==
  [name |-> "Priority", type |-> SingleSelect, names |-> <<"High", "Low", "high">>]

\* The identifier of the i-th option of a single-select field.
OptionId(f, i) == <<"option", f.name, i>>

\* normalize for SingleSelect: the raw value is an option identifier, the
\* display value is that option's name.
Normalize(f, raw) == f.names[raw[3]]

\* The options of `f`, from the i-th on, whose name is `value` in some
\* letter casing.
RECURSIVE OptionMatchesFrom(_, _, _)
OptionMatchesFrom(f, value, i) ==
  IF i > Len(f.names) THEN <<>>
  ELSE (IF Lower(f.names[i]) = Lower(value) THEN <<i>> ELSE <<>>)
         \o OptionMatchesFrom(f, value, i + 1)

\* A resolution that compares the names as they are written.
OptionMatchesExact(f, value) ==
  IF \E i \in DOMAIN f.names : f.names[i] = value
  THEN <<CHOOSE i \in DOMAIN f.names : f.names[i] = value>>
  ELSE <<>>

OptionMatches(f, value) == OptionMatchesFrom(f, value, 1)

\* resolve_write_value for SingleSelect: the identifier of the one option
\* whose name matches case-insensitively, an error when there is not
\* exactly one.
ResolveWriteValue(f, value) ==
  LET m == OptionMatches(f, value)
  IN IF Len(m) = 1 THEN [ok |-> TRUE, value |-> OptionId(f, m[1])]
     ELSE [ok |-> FALSE, value |-> None]

\* The option names a caller writes.
OptionNames ==
  {"Todo", "todo", "TODO", "Done", "done", "DONE", "High", "high", "HIGH",
   "Low", "low", "LOW", "blocked", None}

\* The caller resolves a name for a field.
Resolve(i, value) ==
  /\ last' = [tool |-> "resolve_write_value", field |-> i, value |-> value,
              from |-> value, id |-> None,
              result |-> ResolveWriteValue(fields[i], value)]
  /\ UNCHANGED <<transport, fields, items, issues, chain>>

\* The resolved identifier is normalized back to its display name.
NormalizeResolved ==
  /\ last.tool = "resolve_write_value" /\ last.result.ok
  /\ last' = [tool |-> "normalize", field |-> last.field,
              value |-> last.result.value, from |-> last.from,
              id |-> last.result.value,
              result |-> [ok |-> TRUE,
                          value |-> Normalize(fields[last.field], last.result.value)]]
  /\ UNCHANGED <<transport, fields, items, issues, chain>>

\* The display name is resolved again.
ResolveDisplayName ==
  /\ last.tool = "normalize"
  /\ last' = [tool |-> "resolve_write_value", field |-> last.field,
              value |-> last.result.value, from |-> last.from, id |-> last.id,
              result |-> ResolveWriteValue(fields[last.field], last.result.value)]
  /\ UNCHANGED <<transport, fields, items, issues, chain>>

\* The projects whose single-select fields are written.
InitResolve ==
  /\ fields \in { <<StatusField, PriorityField>>, <<PriorityField, StatusField>>,
                  <<StatusField, SprintField, PriorityField>> }
  /\ items = <<>>
  /\ issues = <<>>
  /\ chain = NoChain
  /\ last = NoCall
  /\ transport = NoRequest

NextResolve ==
  \/ \E i \in {k \in DOMAIN fields : fields[k].type = SingleSelect},
        value \in OptionNames :
       Resolve(i, value)
  \/ NormalizeResolved
  \/ ResolveDisplayName

SpecResolve == InitResolve /\ [][NextResolve]_vars

\* ==== Field Type Model: properties ====

\* The options of `f` named `value` in some letter casing.
NamedOptions(f, value) ==
  {i \in DOMAIN f.names : Lower(f.names[i]) = Lower(value)}

\* C15: for a single-select field and a name given in any letter casing,
\* resolve_write_value returns the identifier of the one option with that
\* name, which normalize turns into that option's display name, and
\* resolving the display name returns the same identifier again; a name
\* that matches no option, or more than one, is an error.
C15_ResolveNormalizeRoundTrip ==
  /\ last.tool = "resolve_write_value" =>
       LET f == fields[last.field]
           m == NamedOptions(f, last.value)
       IN IF Cardinality(m) = 1
          THEN /\ last.result.ok
               /\ \A i \in m :
                    /\ last.result.value = OptionId(f, i)
                    /\ Normalize(f, last.result.value) = f.names[i]
                    /\ Lower(Normalize(f, last.result.value)) = Lower(last.value)
                    /\ ResolveWriteValue(f, Normalize(f, last.result.value))
                         = last.result
               /\ last.id # None => last.result.value = last.id
          ELSE ~last.result.ok
  /\ last.tool = "normalize" =>
       /\ Lower(last.result.value) = Lower(last.from)
       /\ NamedOptions(fields[last.field], last.result.value)
            = NamedOptions(fields[last.field], last.from)

\* "DONE" was resolved, normalized to "Done", and "Done" resolved to the
\* same option.
C15_Witness ==
  /\ last.tool = "resolve_write_value"
  /\ last.from = "DONE" /\ last.value = "Done"
  /\ last.id # None
  /\ last.result.ok /\ last.result.value = last.id

\* ==== update_issue_labels ====

LabelIds == {"LA_1", "LA_2"}

\* The node identifier of the issue with a number.
NodeId(number) == <<"issue", number>>

\* A mutation that adds the given labels to those the issue has.
MergeLabels(old, ids) == old \cup ids

\* updateIssue(input: {id, labelIds}): the issue's labels become labelIds.
ReplaceLabels(old, ids) == ids

\* update_issue_labels for an (owner, repo, number) reference: request 1 is
\* the GetIssueId query, request 2 the UpdateIssueLabels mutation on the
\* node identifier the query returned.  `failAt` is the request that fails
\* (0: none does); a number the repository does not have is not found.
ClientUpdateIssueLabels(iss, number, ids, failAt, msg) ==
  LET known == \E i \in DOMAIN iss : iss[i].number = number
      node == IF known THEN NodeId(number) ELSE None
  IN IF failAt = 1 \/ ~known
     THEN [ok |-> FALSE, error |-> "GitHubClientError",
           msg |-> IF failAt = 1 THEN msg ELSE "not found",
           calls |-> <<"get_issue_node_id">>, node |-> None, issues |-> iss]
     ELSE IF failAt = 2
     THEN [ok |-> FALSE, error |-> "GitHubClientError", msg |-> msg,
           calls |-> <<"get_issue_node_id", "update_issue_labels">>,
           node |-> node, issues |-> iss]
     ELSE [ok |-> TRUE, error |-> None, msg |-> None,
           calls |-> <<"get_issue_node_id", "update_issue_labels">>,
           node |-> node,
           issues |-> [i \in DOMAIN iss |->
                         IF iss[i].node = node
                         THEN [iss[i] EXCEPT !.labels = ReplaceLabels(@, ids)]
                         ELSE iss[i]]]

LabelsText(number, ids, r) ==
  IF ~r.ok THEN ListResult("Error", <<>>, r.msg)
  ELSE ListResult("LabelsUpdated", <<number, ids>>, None)

LabelsOf(iss, number) ==
  IF \E i \in DOMAIN iss : iss[i].number = number
  THEN iss[CHOOSE i \in DOMAIN iss : iss[i].number = number].labels
  ELSE {}

UpdateIssueLabels(number, ids, o) ==
  \E r \in {ClientUpdateIssueLabels(issues, number, ids, o.failAt, o.msg)} :
    /\ last' = [tool |-> "update_issue_labels",
                args |-> [issue_number |-> number, label_ids |-> ids],
                calls |-> r.calls, requests |-> Len(r.calls), env |-> o,
                resp |-> [ok |-> r.ok, error |-> r.error, node |-> r.node,
                          before |-> LabelsOf(issues, number)],
                result |-> LabelsText(number, ids, r)]
    /\ issues' = r.issues
    /\ UNCHANGED <<transport, fields, items, chain>>

\* A repository whose issues carry any of the labels.
InitLabels ==
  /\ fields = FetchSchema
  /\ items = <<>>
  /\ \E n \in 1..MaxIssues :
       \E ls \in [1..n -> SUBSET LabelIds] :
         issues = [i \in 1..n |-> [number |-> i, url |-> Url(i),
                                   node |-> NodeId(i), labels |-> ls[i]]]
  /\ chain = NoChain
  /\ last = NoCall
  /\ transport = NoRequest

\* The caller names the last issue of the repository or a number the
\* repository does not have; the query or the mutation may fail.
NextLabels ==
  \E number \in {Len(issues), Len(issues) + 1}, ids \in SUBSET LabelIds,
     o \in {[failAt |-> 0, msg |-> None]}
            \cup {[failAt |-> k, msg |-> "rate limit exceeded"] : k \in {1, 2}} :
    UpdateIssueLabels(number, ids, o)

SpecLabels == InitLabels /\ [][NextLabels]_vars

\* ==== update_issue_labels: properties ====

InitTransport ==
  /\ fields = <<>>
  /\ items = <<>>
  /\ issues = <<>>
  /\ chain = NoChain
  /\ last = NoCall
  /\ transport = NoRequest

AttemptEnds == \E o \in Success \cup Fatal \cup Transient : Attempt(o)

NextTransport ==
  \/ \E doc \in {"query", "mutation"} : Execute(doc)
  \/ AttemptEnds
  \/ Backoff

\* Every attempt sent gets an answer or times out, and every backoff delay
\* ends.
SpecTransportLive ==
  /\ InitTransport /\ [][NextTransport]_vars
  /\ WF_vars(AttemptEnds) /\ WF_vars(Backoff)

\* ==== Transport: properties ====

InFlight == transport.phase \in {"sending", "backoff"}

Done == transport.phase = "done"

LastAttempt == transport.log[Len(transport.log)]

\* What holds of a request at every moment: at most MaxRetries retries were
\* made, each after a transient failure; a finished request has a result
\* or a client error; a transient failure ends it only when the retries
\* are used up; an error the API reports ends it at once.
C14_Safe ==
  /\ Len(transport.log) <= MaxRetries + 1
  /\ \A i \in 1..(Len(transport.log) - 1) : transport.log[i] \in Transient
  /\ transport.phase = "backoff" => LastAttempt \in Transient
  /\ Done =>
       /\ transport.log # <<>>
       /\ transport.outcome \in {"result", "client_error"}
       /\ (transport.outcome = "result") = (LastAttempt \in Success)
       /\ transport.outcome = "client_error" => transport.error = LastAttempt
       /\ LastAttempt \in Transient => Len(transport.log) = MaxRetries + 1
       /\ transport.log[1] \in Fatal => Len(transport.log) = 1

\* C14: Transport retries only transient failures, at most MaxRetries times
\* per request; when the retries are used up the request ends as a client
\* error; an authentication or schema error ends the request with the
\* attempt that met it, the only attempt when it is the first; and every
\* execute call ends with a result or a client error.
C14_RetriesAreBoundedAndExecuteEnds ==
  []C14_Safe /\ (InFlight ~> Done)

\* The retries are used up: MaxRetries + 1 attempts, all transient failures.
C14_Witness ==
  /\ Done
  /\ Len(transport.log) = MaxRetries + 1
  /\ LastAttempt = "rate_limit"
  /\ transport.outcome = "client_error"

====
